---- MODULE Spec2Model ----
(***************************************************************************)
(* Model of the YouTube channel download job pipeline:                     *)
(*   server/index.js           job registry, SSE broadcaster, endpoints     *)
(*   server/youtubeDownloader.js  clampInt, listVideoIds, fetchVideoMeta,   *)
(*                                downloadChannelData                       *)
(* Node runs every handler and every continuation after an await to its    *)
(* next await without interleaving, so one action is one such run.         *)
(***************************************************************************)
EXTENDS Integers, Sequences, FiniteSets, TLC

\* ------------------------------------------------------------------ bounds
\* Longest listing the external yt-dlp call returns in the model.
MaxUnits == 2

\* Job ids that Date.now()/Math.random() can produce, and the response
\* objects (one per stream connection) the model distinguishes.
JobIds == {"j1"}
Subs == {"r1", "r2"}

\* The job ids of the runs with two jobs in flight.
TwoJobIds == {"j1", "j2"}

\* Video ids that appear in listings.
VideoIds == {"va", "vb"}

\* How often one id is drawn by create calls where ids may repeat.
MaxCreates == 2

\* Largest maxRetries a caller of fetchWithRetry passes.
MaxTries == 4

\* Largest number a create call sends as maxVideos.
MaxInput == 103

\* ------------------------------------------------------------- JS values
Null == [t |-> "null"]
Undefined == [t |-> "undefined"]
NaN == [t |-> "nan"]
Num(n) == [t |-> "num", v |-> n]
Str(s) == [t |-> "str", v |-> s]
\* a JS string whose characters matter (a sequence of one-character strings)
Chars(s) == [t |-> "chars", v |-> s]
\* a JS string made by joining words with a blank (the sequence of the words)
Words(s) == [t |-> "words", v |-> s]

IsString(x) == x.t \in {"str", "chars", "words", "url"}
IsNumber(x) == x.t \in {"num", "nan"}
\* JS truthiness, as used by || and by if (...)
Truthy(x) ==
  CASE x.t = "str" -> x.v # ""
    [] x.t \in {"chars", "words"} -> x.v # <<>>
    [] x.t = "num" -> x.v # 0
    [] x.t \in {"null", "undefined", "nan"} -> FALSE
    [] OTHER -> TRUE
\* a || b
OrElse(a, b) == IF Truthy(a) THEN a ELSE b

\* ---------------------------------------------------------------- clampInt
Digits == <<"0", "1", "2", "3", "4", "5", "6", "7", "8", "9">>
IsDigit(c) == \E d \in 1..10 : Digits[d] = c
DigitVal(c) == (CHOOSE d \in 1..10 : Digits[d] = c) - 1

RECURSIVE SkipSpace(_)
SkipSpace(s) == IF s # <<>> /\ Head(s) = " " THEN SkipSpace(Tail(s)) ELSE s

RECURSIVE ReadDigits(_, _)
\* value of the longest digit prefix of s, acc the value read so far
ReadDigits(s, acc) ==
  IF s # <<>> /\ IsDigit(Head(s))
    THEN ReadDigits(Tail(s), acc * 10 + DigitVal(Head(s)))
    ELSE acc

\* Number.parseInt(string, 10): leading blanks, an optional sign, then the
\* longest run of digits; NaN when there is no digit.
ParseIntStr(s) ==
  LET u == SkipSpace(s)
      neg == u # <<>> /\ Head(u) = "-"
      w == IF u # <<>> /\ Head(u) \in {"-", "+"} THEN Tail(u) ELSE u
  IN IF w = <<>> \/ ~IsDigit(Head(w)) THEN NaN
     ELSE Num(IF neg THEN 0 - ReadDigits(w, 0) ELSE ReadDigits(w, 0))

\* Number.parseInt(n, 10) on a JS value: the value is converted to a string
\* first, so an integer number parses to itself and undefined/null to NaN.
ParseInt(n) ==
  CASE n.t = "num" -> n
    [] n.t = "chars" -> ParseIntStr(n.v)
    [] OTHER -> NaN

Min2(a, b) == IF a < b THEN a ELSE b
Max2(a, b) == IF a > b THEN a ELSE b

\* clampInt without Math.max(min, ...)
clampIntNoFloor(n, min, max, fallback) ==
  LET x == ParseInt(n)
  IN IF x.t # "num" THEN fallback ELSE Min2(max, x.v)
\* Number.parseInt, the isFinite test, Math.max(min, Math.min(max, x))
clampInt(n, min, max, fallback) ==
  LET x == ParseInt(n)
  IN IF x.t # "num" THEN fallback ELSE Max2(min, Min2(max, x.v))

\* ------------------------------------------------------ youtubeDownloader
\* the string https://www.youtube.com/watch?v=<videoId>
WatchUrl(videoId) == [t |-> "url", watch |-> videoId]
normalizeVideoUrl(videoId) == WatchUrl(videoId)

\* upload_date as yt-dlp gives it, YYYYMMDD, becomes YYYY-MM-DD
parseUploadDate(uploadDate) ==
  IF uploadDate.t # "chars" \/ Len(uploadDate.v) # 8 THEN Null
  ELSE Chars(SubSeq(uploadDate.v, 1, 4) \o <<"-">> \o SubSeq(uploadDate.v, 5, 6)
             \o <<"-">> \o SubSeq(uploadDate.v, 7, 8))

\* new Date(timestamp * 1000).toISOString()
ToISOString(ts) == [t |-> "iso", ms |-> ts.v * 1000]

\* The record fetchVideoMeta builds from yt-dlp's JSON v for videoId.
MetaRecord(videoId, v) ==
  LET url == normalizeVideoUrl(videoId)
      thumb == OrElse(v.thumbnail,
                      IF v.thumbnails # <<>> THEN v.thumbnails[Len(v.thumbnails)]
                      ELSE Null)
      uploadDate == OrElse(parseUploadDate(v.upload_date),
                           IF Truthy(v.timestamp) THEN ToISOString(v.timestamp)
                           ELSE Null)
  IN [video_id |-> OrElse(v.id, Str(videoId)),
      title |-> OrElse(v.title, Str("")),
      description |-> OrElse(v.description, Str("")),
      transcript |-> Null,
      duration_seconds |-> IF IsNumber(v.duration) THEN v.duration ELSE Null,
      duration_iso |-> IF IsString(v.duration_string) THEN v.duration_string ELSE Null,
      release_date |-> uploadDate,
      view_count |-> IF IsNumber(v.view_count) THEN v.view_count ELSE Null,
      like_count |-> IF IsNumber(v.like_count) THEN v.like_count ELSE Null,
      comment_count |-> IF IsNumber(v.comment_count) THEN v.comment_count ELSE Null,
      video_url |-> OrElse(v.webpage_url, url),
      thumbnail_url |-> OrElse(thumb, Null)]

\* The record downloadChannelData pushes when fetchVideoMeta throws.
Placeholder(videoId, error) ==
  [video_id |-> Str(videoId),
   title |-> Str(""),
   description |-> Str(""),
   transcript |-> Null,
   duration_seconds |-> Null,
   duration_iso |-> Null,
   release_date |-> Null,
   view_count |-> Null,
   like_count |-> Null,
   comment_count |-> Null,
   video_url |-> normalizeVideoUrl(videoId),
   thumbnail_url |-> Null,
   error |-> error]

\* e?.message || String(e) for a thrown Error e
ErrorText(e) == OrElse(e.message, Str("Error"))

\* fetchTranscriptBestEffort: reply is what YoutubeTranscript.fetchTranscript
\* did, a throw or the items' texts (already trimmed)
RECURSIVE FilterTruthy(_)
FilterTruthy(ws) ==
  IF ws = <<>> THEN <<>>
  ELSE IF Head(ws) # "" THEN <<Head(ws)>> \o FilterTruthy(Tail(ws))
  ELSE FilterTruthy(Tail(ws))

fetchTranscriptBestEffort(reply) ==
  IF reply.threw THEN Null
  ELSE IF reply.items = <<>> THEN Null
  ELSE Words(FilterTruthy(reply.items))

\* listVideoIds after the yt-dlp call returned parsed: the string ids of
\* the entries, the first max of them
RECURSIVE EntryIds(_)
EntryIds(entries) ==
  IF entries = <<>> THEN <<>>
  ELSE LET e == Head(entries)
       IN IF e.t = "obj" /\ e.id.t = "str"
            THEN <<e.id.v>> \o EntryIds(Tail(entries))
            ELSE EntryIds(Tail(entries))

Slice(s, n) == SubSeq(s, 1, Min2(n, Len(s)))

listVideoIds(parsed, maxVideos) ==
  LET max == clampInt(Num(maxVideos), 1, 100, 10)
      entries == IF parsed.entries.t = "array" THEN parsed.entries.v ELSE <<>>
  IN Slice(EntryIds(entries), max)

\* ProgressPayload with the index passed as the total
ProgressPayloadIndex(i, total, videoId, error, item) ==
  [completed |-> i + 1, total |-> i, video_id |-> videoId,
   error |-> error, item |-> item]

\* the progress object downloadChannelData hands to onProgress after unit i
\* (0-based) of total
ProgressPayload(i, total, videoId, error, item) ==
  [completed |-> i + 1, total |-> total, video_id |-> videoId,
   error |-> error, item |-> item]

\* ------------------------------------------------------------ environment
\* What the request bodies and the external calls can hold in the model.
ChannelUrlInputs == {Str("https://www.youtube.com/@handle"), Str(""), Undefined, Num(7)}
MaxVideosInputs == {Undefined, Num(1)}

Entry(videoId) == [t |-> "obj", id |-> Str(videoId)]
EntryValues == {Entry(v) : v \in VideoIds} \cup {Null, [t |-> "obj", id |-> Num(7)]}
SeqsUpTo(S, n) == UNION {[1..k -> S] : k \in 0..n}
\* yt-dlp's parsed JSON: entries an array, or no entries field at all
ListingReplies ==
  {[entries |-> [t |-> "array", v |-> es]] : es \in SeqsUpTo(EntryValues, MaxUnits)}
    \cup {[entries |-> Undefined]}

\* what listVideoIds and fetchVideoMeta can throw
ListingErrors == {[message |-> Str("yt-dlp failed")], [message |-> Str("Unexpected end of JSON input")]}
FetchErrors == {[message |-> Str("Video unavailable")]}

\* yt-dlp's JSON for one video: the same for every fetch of that video
FullMeta(videoId) ==
  [id |-> Str(videoId), title |-> Str("a title"), description |-> Str("text"),
   duration |-> Num(61), duration_string |-> Str("1:01"),
   upload_date |-> Chars(<<"2", "0", "2", "4", "0", "1", "3", "1">>),
   timestamp |-> Num(1706659),
   view_count |-> Num(10), like_count |-> Num(0), comment_count |-> Undefined,
   webpage_url |-> WatchUrl(videoId),
   thumbnail |-> Str("thumb.jpg"), thumbnails |-> <<Str("small.jpg"), Str("big.jpg")>>]
SparseMeta ==
  [id |-> Undefined, title |-> Undefined, description |-> Undefined,
   duration |-> Undefined, duration_string |-> Undefined,
   upload_date |-> Undefined, timestamp |-> Num(1706659),
   view_count |-> Undefined, like_count |-> Undefined, comment_count |-> Undefined,
   webpage_url |-> Undefined,
   thumbnail |-> Undefined, thumbnails |-> <<Str("small.jpg"), Str("big.jpg")>>]
MetaReply(videoId) == IF videoId = "va" THEN FullMeta(videoId) ELSE SparseMeta

TranscriptReplies ==
  {[threw |-> TRUE, items |-> <<>>], [threw |-> FALSE, items |-> <<>>],
   [threw |-> FALSE, items |-> <<"hello", "", "world">>]}

\* ------------------------------------------------------------------ state
VARIABLES
  youtubeJobs,     \* the Map jobId -> job record
  youtubeStreams,  \* the Map jobId -> Set(res)
  driver,          \* per job id, where its async download stands
  chan,            \* per response object of a stream request: what was written
  published,       \* per job id, the events handed to broadcast (history)
  resp,            \* the JSON response the last step sent (NoResp when it sent none)
  retry            \* the call of fetchWithRetry: its locals, what it did, its result

vars == <<youtubeJobs, youtubeStreams, driver, chan, published, resp, retry>>

Ev(event, data) == [event |-> event, data |-> data]

\* pc: idle, listing (awaiting listVideoIds), meta (awaiting fetchVideoMeta),
\* transcript (awaiting fetchTranscriptBestEffort), finished; ids, i, results,
\* item are the locals of downloadChannelData; thrown is what the listing
\* call threw and failed the positions whose fetchVideoMeta threw (history)
IdleDriver == [pc |-> "idle", max |-> 0, ids |-> <<>>, i |-> 0, results |-> <<>>, item |-> Null,
               thrown |-> Null, failed |-> {}]
UnusedChan == [st |-> "unused", jobId |-> "", recv |-> <<>>, at |-> ""]
NoResp == [op |-> "none", jobId |-> "", code |-> 0, body |-> Null]
\* pc: idle, fetching (awaiting fetch and resp.json), sleeping, returned;
\* did is what the call did so far: "request", a response's status, "sleep"
IdleRetry == [pc |-> "idle", maxRetries |-> 0, attempt |-> 0, lastStatus |-> Null,
              lastJson |-> Null, did |-> <<>>, result |-> Null]

Init ==
  /\ youtubeJobs = <<>>
  /\ youtubeStreams = <<>>
  /\ driver = [j \in JobIds |-> IdleDriver]
  /\ chan = [s \in Subs |-> UnusedChan]
  /\ published = [j \in JobIds |-> <<>>]
  /\ resp = NoResp
  /\ retry = IdleRetry

\* Map helpers: a Map is a function on the set of its keys
Has(m, k) == k \in DOMAIN m
MapSet(m, k, v) == (k :> v) @@ m
MapDelete(m, k) == [x \in DOMAIN m \ {k} |-> m[x]]

\* ------------------------------------------------------------ broadcaster
\* sseSend(res, event, data): two writes on the response
sseSend(c, ev) == [c EXCEPT !.recv = Append(@, ev)]

\* attachStream(jobId, res)
attachStream(streams, jobId, s) ==
  IF Has(streams, jobId) THEN [streams EXCEPT ![jobId] = @ \cup {s}]
  ELSE MapSet(streams, jobId, {s})

\* broadcast that returns after the first response of the set
broadcastOne(ch, streams, jobId, ev) ==
  IF ~Has(streams, jobId) \/ streams[jobId] = {} THEN ch
  ELSE LET first == CHOOSE s \in streams[jobId] : TRUE
       IN [ch EXCEPT ![first] = sseSend(@, ev)]

\* res.write throws on a response whose channel is broken
Writable(c) == c.st # "broken"

\* a broadcast without try/catch: the throw of the first write that fails,
\* taken to be the first of the set, ends the loop
broadcastUncaught(ch, streams, jobId, ev) ==
  IF ~Has(streams, jobId) THEN ch
  ELSE IF \E s \in streams[jobId] : ~Writable(ch[s]) THEN ch
  ELSE [s \in Subs |-> IF s \in streams[jobId] THEN sseSend(ch[s], ev) ELSE ch[s]]

\* a broadcast that sends to the responses of every subscriber set
broadcastAll(ch, streams, jobId, ev) ==
  [s \in Subs |-> IF \E j \in DOMAIN streams : s \in streams[j]
                    THEN sseSend(ch[s], ev) ELSE ch[s]]

\* broadcast(jobId, event, data): the channels after the sends; a send that
\* throws is caught and the loop goes on
broadcast(ch, streams, jobId, ev) ==
  IF ~Has(streams, jobId) THEN ch
  ELSE [s \in Subs |-> IF s \in streams[jobId] /\ Writable(ch[s])
                         THEN sseSend(ch[s], ev) ELSE ch[s]]

\* closeStreams(jobId): res.end() on every response of the set ...
closeStreamsChan(ch, streams, jobId) ==
  IF ~Has(streams, jobId) THEN ch
  ELSE [s \in Subs |-> IF s \in streams[jobId] /\ Writable(ch[s])
                         THEN [ch[s] EXCEPT !.st = "ended"] ELSE ch[s]]
\* ... and youtubeStreams.delete(jobId)
closeStreamsMap(streams, jobId) ==
  IF ~Has(streams, jobId) THEN streams ELSE MapDelete(streams, jobId)

\* --------------------------------------------------------------- endpoints
\* ids a create call can draw: Date.now() and Math.random() give an id no
\* job of the registry has
\* ids drawn with no regard to the registry
AnyId == JobIds
FreshIds == JobIds \ DOMAIN youtubeJobs

NewJob(channelUrl, max) ==
  [status |-> "running", total |-> max, completed |-> 0, results |-> <<>>,
   error |-> Null, channelUrl |-> channelUrl, maxVideos |-> max]

StartingEvent == Ev("status", [status |-> "starting"])

\* the test that rejects only a falsy channelUrl
ChannelUrlFalsy(channelUrl) == ~Truthy(channelUrl)
\* if (!channelUrl || typeof channelUrl !== 'string')
ChannelUrlRejected(channelUrl) == ~Truthy(channelUrl) \/ ~IsString(channelUrl)

\* POST /api/youtube/jobs, up to the first await of the download it starts
Create(jobId, channelUrl, maxVideos) ==
  IF ChannelUrlRejected(channelUrl)
  THEN /\ resp' = [op |-> "create", jobId |-> "", code |-> 400,
                   body |-> [error |-> "channelUrl is required"]]
       /\ UNCHANGED <<youtubeJobs, youtubeStreams, driver, chan, published, retry>>
  ELSE LET max == clampInt(maxVideos, 1, 100, 10)
       IN /\ youtubeJobs' = MapSet(youtubeJobs, jobId, NewJob(channelUrl, max))
          /\ chan' = broadcast(chan, youtubeStreams, jobId, StartingEvent)
          /\ published' = [published EXCEPT ![jobId] = Append(@, StartingEvent)]
          /\ driver' = [driver EXCEPT ![jobId] = [IdleDriver EXCEPT !.pc = "listing", !.max = max]]
          /\ resp' = [op |-> "create", jobId |-> jobId, code |-> 200,
                      body |-> [ok |-> TRUE, jobId |-> jobId, maxVideos |-> max]]
          /\ UNCHANGED <<youtubeStreams, retry>>

\* the job record after the progress callback ran with p
OnProgress(job, p) ==
  [job EXCEPT !.completed = p.completed,
              !.total = IF Has(p, "total") /\ IsNumber(Num(p.total)) THEN p.total ELSE @]

\* JobDone without job.results = results
JobDoneNoResults(job, total, results) ==
  [job EXCEPT !.status = "done", !.total = total, !.completed = total]

\* a done path that broadcasts done and leaves the status running
JobDoneStatusLater(job, total, results) ==
  [job EXCEPT !.total = total, !.completed = total, !.results = results]
\* a done path that counts only the units whose fetch succeeded
JobDoneCountsFetched(job, total, results) ==
  [job EXCEPT !.status = "done", !.total = total, !.results = results,
              !.completed = Len(SelectSeq(results, LAMBDA r : ~Has(r, "error")))]
\* the job record after downloadChannelData returned {total, results}
JobDone(job, total, results) ==
  [job EXCEPT !.status = "done", !.total = total, !.completed = total, !.results = results]

\* JobError without job.error = message
JobErrorNoMessage(job, e) == [job EXCEPT !.status = "error"]

\* the job record after the catch block ran for the thrown e
JobError(job, e) == [job EXCEPT !.status = "error", !.error = ErrorText(e)]

DoneEvent(jobId, total) == Ev("done", [ok |-> TRUE, jobId |-> jobId, total |-> total])
ErrorEvent(text) == Ev("error", [error |-> text])

\* a done path that closes the streams before it broadcasts done
FinishClosesFirst(jobId, job, ch, pub, total, results, failed) ==
  LET ev == DoneEvent(jobId, total)
  IN /\ youtubeJobs' = [youtubeJobs EXCEPT ![jobId] = JobDone(job, total, results)]
     /\ chan' = closeStreamsChan(ch, youtubeStreams, jobId)
     /\ youtubeStreams' = closeStreamsMap(youtubeStreams, jobId)
     /\ published' = [published EXCEPT ![jobId] = pub \o <<ev>>]
     /\ driver' = [driver EXCEPT ![jobId] =
                     [@ EXCEPT !.pc = "finished", !.results = results, !.item = Null,
                               !.i = Len(results), !.failed = failed]]

\* ids is empty or the loop ended: the download returns, the driver marks the
\* job done, broadcasts done and closes the streams (try body and finally)
Finish(jobId, job, ch, pub, total, results, failed) ==
  LET ev == DoneEvent(jobId, total)
      ch2 == broadcast(ch, youtubeStreams, jobId, ev)
  IN /\ youtubeJobs' = [youtubeJobs EXCEPT ![jobId] = JobDone(job, total, results)]
     /\ chan' = closeStreamsChan(ch2, youtubeStreams, jobId)
     /\ youtubeStreams' = closeStreamsMap(youtubeStreams, jobId)
     /\ published' = [published EXCEPT ![jobId] = pub \o <<ev>>]
     /\ driver' = [driver EXCEPT ![jobId] =
                     [@ EXCEPT !.pc = "finished", !.results = results, !.item = Null,
                               !.i = Len(results), !.failed = failed]]

\* a catch block that drops the failed job from the registry
FailAndForget(jobId, e) ==
  LET ev == ErrorEvent(ErrorText(e))
      ch2 == broadcast(chan, youtubeStreams, jobId, ev)
  IN /\ youtubeJobs' = MapDelete(youtubeJobs, jobId)
     /\ chan' = closeStreamsChan(ch2, youtubeStreams, jobId)
     /\ youtubeStreams' = closeStreamsMap(youtubeStreams, jobId)
     /\ published' = [published EXCEPT ![jobId] = Append(@, ev)]
\* downloadChannelData threw e: the catch block and finally of the driver
Fail(jobId, e) ==
  LET ev == ErrorEvent(ErrorText(e))
      ch2 == broadcast(chan, youtubeStreams, jobId, ev)
  IN /\ youtubeJobs' = [youtubeJobs EXCEPT ![jobId] = JobError(@, e)]
     /\ chan' = closeStreamsChan(ch2, youtubeStreams, jobId)
     /\ youtubeStreams' = closeStreamsMap(youtubeStreams, jobId)
     /\ published' = [published EXCEPT ![jobId] = Append(@, ev)]

\* listVideoIds throws (ensureYtDlp, the yt-dlp call or JSON.parse), which
\* downloadChannelData does not catch
ListThrows(jobId, e) ==
  /\ driver[jobId].pc = "listing"
  /\ Fail(jobId, e)
  /\ driver' = [driver EXCEPT ![jobId] = [@ EXCEPT !.pc = "finished", !.thrown = e]]
  /\ UNCHANGED retry
  /\ resp' = NoResp

\* listVideoIds throwing when it finds no id
ListReturnsStrict(jobId, parsed) ==
  /\ driver[jobId].pc = "listing"
  /\ LET ids == listVideoIds(parsed, driver[jobId].max)
     IN IF ids = <<>>
          THEN /\ Fail(jobId, [message |-> Str("No videos found")])
               /\ driver' = [driver EXCEPT ![jobId] = [@ EXCEPT !.pc = "finished"]]
          ELSE /\ driver' = [driver EXCEPT ![jobId] = [@ EXCEPT !.pc = "meta", !.ids = ids]]
               /\ UNCHANGED <<youtubeJobs, youtubeStreams, chan, published>>
  /\ UNCHANGED retry
  /\ resp' = NoResp

\* a download that waits for a first unit when the listing has none
ListReturnsWaits(jobId, parsed) ==
  /\ driver[jobId].pc = "listing"
  /\ LET ids == listVideoIds(parsed, driver[jobId].max)
     IN driver' = [driver EXCEPT ![jobId] =
                     [@ EXCEPT !.pc = IF ids = <<>> THEN "waiting" ELSE "meta", !.ids = ids]]
  /\ UNCHANGED <<youtubeJobs, youtubeStreams, chan, published>>
  /\ UNCHANGED retry
  /\ resp' = NoResp
\* listVideoIds returns: the loop starts its first fetch, or with no id the
\* download returns at once
ListReturns(jobId, parsed) ==
  /\ driver[jobId].pc = "listing"
  /\ LET ids == listVideoIds(parsed, driver[jobId].max)
     IN IF ids = <<>>
          THEN Finish(jobId, youtubeJobs[jobId], chan, published[jobId], 0, <<>>, {})
          ELSE /\ driver' = [driver EXCEPT ![jobId] = [@ EXCEPT !.pc = "meta", !.ids = ids]]
               /\ UNCHANGED <<youtubeJobs, youtubeStreams, chan, published>>
  /\ UNCHANGED retry
  /\ resp' = NoResp

\* results.unshift(rec)
PushFront(results, rec) == <<rec>> \o results

\* results.push(rec)
PushResult(results, rec) == Append(results, rec)

\* a loop that starts the next fetch before the unit's outcome is recorded
AfterUnitStartsNextFirst(jobId, rec, error, item) ==
  LET d == driver[jobId]
      total == Len(d.ids)
      results == PushResult(d.results, rec)
      p == ProgressPayload(d.i, total, d.ids[d.i + 1], error, item)
      ev == Ev("progress", p)
      job == OnProgress(youtubeJobs[jobId], p)
      ch == broadcast(chan, youtubeStreams, jobId, ev)
      pub == Append(published[jobId], ev)
      failed == IF error = Null THEN d.failed ELSE d.failed \cup {d.i}
  IN IF d.i + 1 < Len(d.ids)
       THEN /\ driver' = [driver EXCEPT ![jobId] =
                            [@ EXCEPT !.pc = "meta", !.i = d.i + 1, !.item = Null]]
            /\ UNCHANGED <<youtubeJobs, youtubeStreams, chan, published>>
       ELSE Finish(jobId, job, ch, pub, total, results, failed)

\* a loop body that calls onProgress only for a unit whose fetch succeeded
AfterUnitSkipsFailed(jobId, rec, error, item) ==
  LET d == driver[jobId]
      total == Len(d.ids)
      results == PushResult(d.results, rec)
      p == ProgressPayload(d.i, total, d.ids[d.i + 1], error, item)
      ev == Ev("progress", p)
      job == IF error = Null THEN OnProgress(youtubeJobs[jobId], p) ELSE youtubeJobs[jobId]
      ch == IF error = Null THEN broadcast(chan, youtubeStreams, jobId, ev) ELSE chan
      pub == IF error = Null THEN Append(published[jobId], ev) ELSE published[jobId]
      failed == IF error = Null THEN d.failed ELSE d.failed \cup {d.i}
  IN IF d.i + 1 < Len(d.ids)
       THEN /\ youtubeJobs' = [youtubeJobs EXCEPT ![jobId] = job]
            /\ chan' = ch
            /\ published' = [published EXCEPT ![jobId] = pub]
            /\ driver' = [driver EXCEPT ![jobId] =
                            [@ EXCEPT !.pc = "meta", !.i = d.i + 1, !.results = results,
                                      !.item = Null, !.failed = failed]]
            /\ UNCHANGED youtubeStreams
       ELSE Finish(jobId, job, ch, pub, total, results, failed)

\* one unit is settled with record rec: results.push, onProgress, i++, then
\* the next fetch starts or the download returns
AfterUnit(jobId, rec, error, item) ==
  LET d == driver[jobId]
      total == Len(d.ids)
      results == PushResult(d.results, rec)
      p == ProgressPayload(d.i, total, d.ids[d.i + 1], error, item)
      ev == Ev("progress", p)
      job == OnProgress(youtubeJobs[jobId], p)
      ch == broadcast(chan, youtubeStreams, jobId, ev)
      pub == Append(published[jobId], ev)
      failed == IF error = Null THEN d.failed ELSE d.failed \cup {d.i}
  IN IF d.i + 1 < Len(d.ids)
       THEN /\ youtubeJobs' = [youtubeJobs EXCEPT ![jobId] = job]
            /\ chan' = ch
            /\ published' = [published EXCEPT ![jobId] = pub]
            /\ driver' = [driver EXCEPT ![jobId] =
                            [@ EXCEPT !.pc = "meta", !.i = d.i + 1, !.results = results,
                                      !.item = Null, !.failed = failed]]
            /\ UNCHANGED youtubeStreams
       ELSE Finish(jobId, job, ch, pub, total, results, failed)

\* fetchVideoMeta's throw left uncaught: it ends the download
MetaThrowsFatal(jobId, e) ==
  /\ driver[jobId].pc = "meta"
  /\ Fail(jobId, e)
  /\ driver' = [driver EXCEPT ![jobId] = [@ EXCEPT !.pc = "finished"]]
  /\ UNCHANGED retry
  /\ resp' = NoResp

\* fetchVideoMeta throws for unit i: the catch block of the loop body
MetaThrows(jobId, e) ==
  /\ driver[jobId].pc = "meta"
  /\ LET videoId == driver[jobId].ids[driver[jobId].i + 1]
         error == ErrorText(e)
     IN AfterUnit(jobId, Placeholder(videoId, error), error, Null)
  /\ UNCHANGED retry
  /\ resp' = NoResp

\* fetchVideoMeta returns for unit i: the transcript fetch starts
MetaReturns(jobId) ==
  /\ driver[jobId].pc = "meta"
  /\ LET videoId == driver[jobId].ids[driver[jobId].i + 1]
     IN driver' = [driver EXCEPT ![jobId] =
                     [@ EXCEPT !.pc = "transcript",
                               !.item = MetaRecord(videoId, MetaReply(videoId))]]
  /\ UNCHANGED retry
  /\ resp' = NoResp
  /\ UNCHANGED <<youtubeJobs, youtubeStreams, chan, published>>

\* a transcript fetch whose throw reaches the catch block of the loop body
TranscriptSettlesSurfacing(jobId, reply) ==
  /\ driver[jobId].pc = "transcript"
  /\ LET videoId == driver[jobId].ids[driver[jobId].i + 1]
         item == [driver[jobId].item EXCEPT !.transcript = fetchTranscriptBestEffort(reply)]
         error == Str("Transcript is disabled")
     IN IF reply.threw
          THEN AfterUnit(jobId, Placeholder(videoId, error), error, driver[jobId].item)
          ELSE AfterUnit(jobId, item, Null, item)
  /\ UNCHANGED retry
  /\ resp' = NoResp
\* fetchTranscriptBestEffort settles for unit i
TranscriptSettles(jobId, reply) ==
  /\ driver[jobId].pc = "transcript"
  /\ LET item == [driver[jobId].item EXCEPT !.transcript = fetchTranscriptBestEffort(reply)]
     IN AfterUnit(jobId, item, Null, item)
  /\ UNCHANGED retry
  /\ resp' = NoResp

\* Replay without the terminal event of a finished job
ReplayStatusOnly(jobId) ==
  IF Has(youtubeJobs, jobId)
  THEN <<Ev("status", [status |-> youtubeJobs[jobId].status,
                       completed |-> youtubeJobs[jobId].completed,
                       total |-> youtubeJobs[jobId].total])>>
  ELSE <<Ev("error", [error |-> Str("Unknown jobId")])>>

\* what the stream handler writes to a new response for jobId
Replay(jobId) ==
  IF Has(youtubeJobs, jobId)
  THEN LET job == youtubeJobs[jobId]
       IN <<Ev("status", [status |-> job.status, completed |-> job.completed,
                           total |-> job.total])>>
          \o (IF job.status = "done" THEN <<DoneEvent(jobId, job.total)>> ELSE <<>>)
          \o (IF job.status = "error"
                THEN <<ErrorEvent(OrElse(job.error, Str("Unknown error")))>> ELSE <<>>)
  ELSE <<ErrorEvent(Str("Unknown jobId"))>>

\* a stream handler that replays the snapshot and registers nothing
AttachReplayOnly(s, jobId) ==
  /\ chan[s].st = "unused"
  /\ chan' = [chan EXCEPT ![s] =
                [st |-> "open", jobId |-> jobId, recv |-> Replay(jobId),
                 at |-> IF Has(youtubeJobs, jobId) THEN youtubeJobs[jobId].status
                        ELSE "unknown"]]
  /\ UNCHANGED retry
  /\ resp' = NoResp
  /\ UNCHANGED <<youtubeJobs, youtubeStreams, driver, published>>
\* GET /api/youtube/jobs/:jobId/stream on the new response object s
Attach(s, jobId) ==
  /\ chan[s].st = "unused"
  /\ youtubeStreams' = attachStream(youtubeStreams, jobId, s)
  /\ chan' = [chan EXCEPT ![s] =
                [st |-> "open", jobId |-> jobId, recv |-> Replay(jobId),
                 at |-> IF Has(youtubeJobs, jobId) THEN youtubeJobs[jobId].status
                        ELSE "unknown"]]
  /\ UNCHANGED retry
  /\ resp' = NoResp
  /\ UNCHANGED <<youtubeJobs, driver, published>>

\* a close handler that drops the whole subscriber set of the job
CloseAll(s) ==
  /\ chan[s].st = "open"
  /\ chan' = [chan EXCEPT ![s].st = "closed"]
  /\ youtubeStreams' = closeStreamsMap(youtubeStreams, chan[s].jobId)
  /\ UNCHANGED retry
  /\ resp' = NoResp
  /\ UNCHANGED <<youtubeJobs, driver, published>>
\* the request's 'close' event while the response is open (after res.end()
\* the handler finds no set, or a set without this response, and changes
\* nothing)
Close(s) ==
  /\ chan[s].st \in {"open", "broken"}
  /\ chan' = [chan EXCEPT ![s].st = "closed"]
  /\ youtubeStreams' =
       IF Has(youtubeStreams, chan[s].jobId)
         THEN [youtubeStreams EXCEPT ![chan[s].jobId] = @ \ {s}]
         ELSE youtubeStreams
  /\ UNCHANGED retry
  /\ resp' = NoResp
  /\ UNCHANGED <<youtubeJobs, driver, published>>

\* the result handler testing for status running instead of not done
ResultResponseNotRunning(jobId) ==
  IF ~Has(youtubeJobs, jobId)
    THEN [op |-> "result", jobId |-> jobId, code |-> 404, body |-> [error |-> "Unknown jobId"]]
  ELSE IF youtubeJobs[jobId].status = "running"
    THEN [op |-> "result", jobId |-> jobId, code |-> 400,
          body |-> [error |-> <<"Job not done: ", youtubeJobs[jobId].status>>]]
  ELSE [op |-> "result", jobId |-> jobId, code |-> 200, body |-> youtubeJobs[jobId].results]

\* GET /api/youtube/jobs/:jobId/result
ResultResponse(jobId) ==
  IF ~Has(youtubeJobs, jobId)
    THEN [op |-> "result", jobId |-> jobId, code |-> 404, body |-> [error |-> "Unknown jobId"]]
  ELSE IF youtubeJobs[jobId].status # "done"
    THEN [op |-> "result", jobId |-> jobId, code |-> 400,
          body |-> [error |-> <<"Job not done: ", youtubeJobs[jobId].status>>]]
  ELSE [op |-> "result", jobId |-> jobId, code |-> 200, body |-> youtubeJobs[jobId].results]

\* a result handler that hands the results over and empties job.results
FetchResultOnce(jobId) ==
  /\ UNCHANGED retry
  /\ resp' = ResultResponse(jobId)
  /\ youtubeJobs' = IF Has(youtubeJobs, jobId) /\ youtubeJobs[jobId].status = "done"
                      THEN [youtubeJobs EXCEPT ![jobId].results = <<>>]
                      ELSE youtubeJobs
  /\ UNCHANGED <<youtubeStreams, driver, chan, published>>
FetchResult(jobId) ==
  /\ UNCHANGED retry
  /\ resp' = ResultResponse(jobId)
  /\ UNCHANGED <<youtubeJobs, youtubeStreams, driver, chan, published>>

\* GET /api/youtube/jobs/:jobId/status
StatusResponse(jobId) ==
  IF ~Has(youtubeJobs, jobId)
    THEN [op |-> "status", jobId |-> jobId, code |-> 404, body |-> [error |-> "Unknown jobId"]]
  ELSE LET job == youtubeJobs[jobId]
       IN [op |-> "status", jobId |-> jobId, code |-> 200,
           body |-> [status |-> job.status, completed |-> job.completed,
                     total |-> job.total, error |-> OrElse(job.error, Null)]]

PollStatus(jobId) ==
  /\ UNCHANGED retry
  /\ resp' = StatusResponse(jobId)
  /\ UNCHANGED <<youtubeJobs, youtubeStreams, driver, chan, published>>

\* ---------------------------------------------------------- fetchWithRetry
\* what fetch and resp.json() give: a status, and a body that parses or not
EmptyObject == [t |-> "obj", keys |-> {}]
RetryStatuses == {200, 204, 404, 429, 500}
RetryReplies == {[status |-> st, parses |-> b] : st \in RetryStatuses, b \in BOOLEAN}
MaxRetriesInputs == {Undefined} \cup {Num(n) : n \in 0..MaxTries}

\* resp.ok
Ok(status) == status \in 200..299
Did(e) == [e |-> e]
Response(status) == [e |-> "response", status |-> status]

\* return { ok: false, status: lastStatus || 429, json: lastJson || {} }
Exhausted(r) ==
  [ok |-> FALSE, status |-> OrElse(r.lastStatus, Num(429)).v,
   json |-> OrElse(r.lastJson, EmptyObject)]

\* the loop test attempt < maxRetries, then fetch(url, options) or the
\* return after the loop
LoopTest(r) ==
  IF r.attempt < r.maxRetries
    THEN [r EXCEPT !.pc = "fetching", !.did = Append(@, Did("request"))]
    ELSE [r EXCEPT !.pc = "returned", !.result = Exhausted(r)]

\* fetchWithRetry(url, options, { maxRetries }) is called: maxRetries = 3
\* when the option is absent
CallFetchWithRetry(maxRetries) ==
  /\ retry.pc \in {"idle", "returned", "rejected"}
  /\ retry' = LoopTest([IdleRetry EXCEPT
                          !.maxRetries = IF maxRetries = Undefined THEN 3 ELSE maxRetries.v])
  /\ UNCHANGED <<youtubeJobs, youtubeStreams, driver, chan, published, resp>>

\* a loop that sleeps only when a further attempt follows
FetchRespondsNoLastSleep(reply) ==
  /\ retry.pc = "fetching"
  /\ LET json == IF reply.parses THEN [t |-> "obj", keys |-> {"body"}] ELSE EmptyObject
         r == [retry EXCEPT !.lastStatus = Num(reply.status), !.lastJson = json,
                            !.did = Append(@, Response(reply.status))]
     IN retry' =
          IF Ok(reply.status)
            THEN [r EXCEPT !.pc = "returned",
                           !.result = [ok |-> TRUE, status |-> reply.status, json |-> json]]
          ELSE IF reply.status # 429
            THEN [r EXCEPT !.pc = "returned",
                           !.result = [ok |-> FALSE, status |-> reply.status, json |-> json]]
          ELSE IF r.attempt + 1 < r.maxRetries
            THEN [r EXCEPT !.pc = "sleeping", !.did = Append(@, Did("sleep"))]
          ELSE [r EXCEPT !.pc = "returned", !.result = Exhausted(r)]
  /\ UNCHANGED <<youtubeJobs, youtubeStreams, driver, chan, published, resp>>

\* fetch resolved and resp.json() settled: the rest of the loop body up to
\* a return or to await sleep(delayMs)
FetchResponds(reply) ==
  /\ retry.pc = "fetching"
  /\ LET json == IF reply.parses THEN [t |-> "obj", keys |-> {"body"}] ELSE EmptyObject
         r == [retry EXCEPT !.lastStatus = Num(reply.status), !.lastJson = json,
                            !.did = Append(@, Response(reply.status))]
     IN retry' =
          IF Ok(reply.status)
            THEN [r EXCEPT !.pc = "returned",
                           !.result = [ok |-> TRUE, status |-> reply.status, json |-> json]]
          ELSE IF reply.status # 429
            THEN [r EXCEPT !.pc = "returned",
                           !.result = [ok |-> FALSE, status |-> reply.status, json |-> json]]
          ELSE [r EXCEPT !.pc = "sleeping", !.did = Append(@, Did("sleep"))]
  /\ UNCHANGED <<youtubeJobs, youtubeStreams, driver, chan, published, resp>>

\* fetch rejects (no response): the call rejects, nothing is caught
FetchRejects ==
  /\ retry.pc = "fetching"
  /\ retry' = [retry EXCEPT !.pc = "rejected"]
  /\ UNCHANGED <<youtubeJobs, youtubeStreams, driver, chan, published, resp>>

\* the sleep is over: attempt++ and the loop test
SleepEnds ==
  /\ retry.pc = "sleeping"
  /\ retry' = LoopTest([retry EXCEPT !.attempt = @ + 1])
  /\ UNCHANGED <<youtubeJobs, youtubeStreams, driver, chan, published, resp>>

Next ==
  \/ \E jobId \in FreshIds, channelUrl \in ChannelUrlInputs, maxVideos \in MaxVideosInputs :
       Create(jobId, channelUrl, maxVideos)
  \/ \E jobId \in JobIds, e \in ListingErrors : ListThrows(jobId, e)
  \/ \E jobId \in JobIds, parsed \in ListingReplies : ListReturns(jobId, parsed)
  \/ \E jobId \in JobIds, e \in FetchErrors : MetaThrows(jobId, e)
  \/ \E jobId \in JobIds : MetaReturns(jobId)
  \/ \E jobId \in JobIds, reply \in TranscriptReplies : TranscriptSettles(jobId, reply)
  \/ \E s \in Subs, jobId \in JobIds : Attach(s, jobId)
  \/ \E s \in Subs : Close(s)
  \/ \E jobId \in JobIds : FetchResult(jobId)
  \/ \E jobId \in JobIds : PollStatus(jobId)

Spec == Init /\ [][Next]_vars

\* ---------------------------------------------------- ids that may repeat
\* The code draws the id from Date.now() and Math.random() and sets it in
\* the Map without looking it up. Here a create call may draw any id, also
\* one of the registry, once the download of the job that holds it has
\* returned (the model keeps one download per id).
CreatedTimes(jobId) ==
  Len(SelectSeq(published[jobId], LAMBDA ev : ev = StartingEvent))

CreateAnyId(jobId, channelUrl, maxVideos) ==
  /\ CreatedTimes(jobId) < MaxCreates
  /\ driver[jobId].pc \in {"idle", "finished"}
  /\ Create(jobId, channelUrl, maxVideos)

\* To keep this specification small its listings hold one entry at most
\* and one response attaches.
ShortListings ==
  {r \in ListingReplies : r.entries.t = "array" => Len(r.entries.v) <= 1}
FirstSub == CHOOSE s \in Subs : TRUE

NextAnyId ==
  \/ \E jobId \in JobIds, channelUrl \in ChannelUrlInputs, maxVideos \in MaxVideosInputs :
       CreateAnyId(jobId, channelUrl, maxVideos)
  \/ \E jobId \in JobIds, e \in ListingErrors : ListThrows(jobId, e)
  \/ \E jobId \in JobIds, parsed \in ShortListings : ListReturns(jobId, parsed)
  \/ \E jobId \in JobIds, e \in FetchErrors : MetaThrows(jobId, e)
  \/ \E jobId \in JobIds : MetaReturns(jobId)
  \/ \E jobId \in JobIds, reply \in TranscriptReplies : TranscriptSettles(jobId, reply)
  \/ \E jobId \in JobIds : Attach(FirstSub, jobId)
  \/ \E s \in Subs : Close(s)
  \/ \E jobId \in JobIds : FetchResult(jobId)
  \/ \E jobId \in JobIds : PollStatus(jobId)

SpecAnyId == Init /\ [][NextAnyId]_vars

\* the channel of an open response stops accepting writes (its 'close'
\* event has not been handled yet): from now on res.write throws
Break(s) ==
  /\ chan[s].st = "open"
  /\ chan' = [chan EXCEPT ![s].st = "broken"]
  /\ UNCHANGED retry
  /\ resp' = NoResp
  /\ UNCHANGED <<youtubeJobs, youtubeStreams, driver, published>>

\* the pipeline with channels that break, without the read requests
NextBroken ==
  \/ \E jobId \in FreshIds, channelUrl \in ChannelUrlInputs, maxVideos \in MaxVideosInputs :
       Create(jobId, channelUrl, maxVideos)
  \/ \E jobId \in JobIds, e \in ListingErrors : ListThrows(jobId, e)
  \/ \E jobId \in JobIds, parsed \in ListingReplies : ListReturns(jobId, parsed)
  \/ \E jobId \in JobIds, e \in FetchErrors : MetaThrows(jobId, e)
  \/ \E jobId \in JobIds : MetaReturns(jobId)
  \/ \E jobId \in JobIds, reply \in TranscriptReplies : TranscriptSettles(jobId, reply)
  \/ \E s \in Subs, jobId \in JobIds : Attach(s, jobId)
  \/ \E s \in Subs : Close(s)
  \/ \E s \in Subs : Break(s)

SpecBroken == Init /\ [][NextBroken]_vars

\* two jobs in flight: the state after construction with two ids that
\* create calls can draw
InitTwo ==
  /\ youtubeJobs = <<>>
  /\ youtubeStreams = <<>>
  /\ driver = [j \in TwoJobIds |-> IdleDriver]
  /\ chan = [s \in Subs |-> UnusedChan]
  /\ published = [j \in TwoJobIds |-> <<>>]
  /\ resp = NoResp
  /\ retry = IdleRetry

ValidUrls == {u \in ChannelUrlInputs : ~ChannelUrlRejected(u)}
FirstError == CHOOSE e \in ListingErrors : TRUE

\* the create calls and the continuations of both downloads, interleaved in
\* every order, with listings of at most one unit
NextTwo ==
  \/ \E jobId \in TwoJobIds \ DOMAIN youtubeJobs, channelUrl \in ValidUrls :
       Create(jobId, channelUrl, Undefined)
  \/ \E jobId \in TwoJobIds : ListThrows(jobId, FirstError)
  \/ \E jobId \in TwoJobIds, parsed \in ShortListings : ListReturns(jobId, parsed)
  \/ \E jobId \in TwoJobIds, e \in FetchErrors : MetaThrows(jobId, e)
  \/ \E jobId \in TwoJobIds : MetaReturns(jobId)
  \/ \E jobId \in TwoJobIds, reply \in TranscriptReplies : TranscriptSettles(jobId, reply)
  \/ \E s \in Subs, jobId \in TwoJobIds : Attach(s, jobId)
  \/ \E s \in Subs : Close(s)

SpecTwo == InitTwo /\ [][NextTwo]_vars

\* calls of fetchWithRetry, one at a time
NextRetry ==
  \/ \E maxRetries \in MaxRetriesInputs : CallFetchWithRetry(maxRetries)
  \/ \E reply \in RetryReplies : FetchResponds(reply)
  \/ FetchRejects
  \/ SleepEnds

SpecRetry == Init /\ [][NextRetry]_vars

\* the continuation of the download of jobId after the external call it
\* awaits returned or failed
DriverStep(jobId) ==
  \/ \E e \in ListingErrors : ListThrows(jobId, e)
  \/ \E parsed \in ListingReplies : ListReturns(jobId, parsed)
  \/ \E e \in FetchErrors : MetaThrows(jobId, e)
  \/ MetaReturns(jobId)
  \/ \E reply \in TranscriptReplies : TranscriptSettles(jobId, reply)

\* every external call a download awaits eventually returns or fails
FairSpec == Spec /\ \A jobId \in JobIds : WF_vars(DriverStep(jobId))

\* maxVideos of a request body: numbers around the range 1..100, strings
\* (a JSON number with a fraction reads as its decimal string), null, absent
NumberInputs == {Num(n) : n \in (0 - 3)..MaxInput}
StringInputs ==
  {Chars(<<"2", "5", "0">>), Chars(<<"7", "x">>), Chars(<<" ", "4", "2">>),
   Chars(<<"-", "5">>), Chars(<<"+", "8">>), Chars(<<"0", "0", "7">>),
   Chars(<<"2", ".", "7">>), Chars(<<"a", "b", "c">>), Chars(<<"-">>),
   Chars(<<>>)}
WideMaxVideos == NumberInputs \cup StringInputs \cup {Undefined, Null, NaN}

\* create calls with any maxVideos; the listing of every download fails
NextClamp ==
  \/ \E jobId \in FreshIds, channelUrl \in ChannelUrlInputs, maxVideos \in WideMaxVideos :
       Create(jobId, channelUrl, maxVideos)
  \/ \E jobId \in JobIds, e \in ListingErrors : ListThrows(jobId, e)
  \/ \E s \in Subs, jobId \in JobIds : Attach(s, jobId)
  \/ \E jobId \in JobIds : PollStatus(jobId)

SpecClamp == Init /\ [][NextClamp]_vars

\* ================================================================= claims
Terminal == {"done", "error"}
Jobs == DOMAIN youtubeJobs
Kinds(s) == [k \in 1..Len(chan[s].recv) |-> chan[s].recv[k].event]
ProgressOf(evs) == SelectSeq(evs, LAMBDA ev : ev.event = "progress")

\* C1: a response attached after the job reached done or error holds the
\* replayed status and then exactly one terminal event, the one of the job's
\* status, and never a progress event.
C1_LateSubscriberOneTerminal ==
  \A s \in Subs :
    chan[s].at \in Terminal =>
      /\ Kinds(s) = <<"status", chan[s].at>>
      /\ chan[s].recv[1].data.status = chan[s].at
      /\ youtubeJobs[chan[s].jobId].status = chan[s].at

C1_Witness ==
  \E s \in Subs :
    /\ chan[s].at = "done"
    /\ Len(chan[s].recv) = 2
    /\ Len(ProgressOf(published[chan[s].jobId])) >= 2

\* C2 as stated: a response attached while the job was running, once the
\* server has ended it, holds a status event, then progress events with
\* completed 1, 2, 3, ... (up to total when the job is done), then one
\* terminal event.
C2_ProgressFromOne ==
  \A s \in Subs :
    (chan[s].at = "running" /\ chan[s].st = "ended") =>
      LET r == chan[s].recv
          n == Len(r)
      IN /\ n >= 2
         /\ r[1].event = "status"
         /\ r[n].event \in Terminal
         /\ \A k \in 2..(n - 1) : r[k].event = "progress" /\ r[k].data.completed = k - 1
         /\ r[n].event = "done" => n - 2 = r[n].data.total

\* C2 amended: a response attached while the job was running holds the
\* status replay reporting completed = c, then the progress events with
\* completed c+1, c+2, ... without gap, all of those published so far while
\* it is open, and, once the server has ended it, one terminal event of the
\* job's status, after progress up to total when the job is done.
C2_ProgressFromReplay ==
  \A s \in Subs :
    chan[s].at = "running" =>
      LET r == chan[s].recv
          n == Len(r)
          c == r[1].data.completed
          job == youtubeJobs[chan[s].jobId]
      IN /\ n >= 1
         /\ r[1].event = "status" /\ r[1].data.status = "running"
         /\ \A k \in 2..n :
              \/ r[k].event = "progress" /\ r[k].data.completed = c + k - 1
              \/ k = n /\ r[k].event \in Terminal /\ chan[s].st = "ended"
         /\ chan[s].st = "open" =>
              /\ job.status = "running"
              /\ Kinds(s) = [k \in 1..n |-> IF k = 1 THEN "status" ELSE "progress"]
              /\ c + n - 1 = job.completed
         /\ chan[s].st = "ended" =>
              /\ n >= 2
              /\ r[n].event = job.status
              /\ job.status = "done" => c + n - 2 = job.total

C2_Witness ==
  \E s \in Subs :
    /\ chan[s].at = "running"
    /\ chan[s].st = "ended"
    /\ chan[s].recv[1].data.completed = 1
    /\ Kinds(s) = <<"status", "progress", "done">>

C4_CompletedAtMostTotal ==
  \A j \in Jobs : youtubeJobs[j].completed <= youtubeJobs[j].total

C4_Witness ==
  \E j \in Jobs :
    /\ youtubeJobs[j].status = "running"
    /\ youtubeJobs[j].completed = 1
    /\ youtubeJobs[j].total = 2
    /\ youtubeJobs[j].maxVideos = 10

\* C5: whenever a job's status is done or error, its results are as many as
\* its completed counter says.
C5_ResultsMatchCompleted ==
  \A j \in Jobs :
    youtubeJobs[j].status # "running" =>
      Len(youtubeJobs[j].results) = youtubeJobs[j].completed

C5_Witness ==
  \E j \in Jobs :
    /\ youtubeJobs[j].status = "done"
    /\ Len(youtubeJobs[j].results) = 2

HasError(r) == "error" \in DOMAIN r /\ r.error # Null
ErrorAt(results) == {i \in 1..Len(results) : HasError(results[i])}
\* the job's listing yielded ids and its driver has run to its end
Enumerated(j) == driver[j].pc = "finished" /\ driver[j].thrown = Null
NullableFields ==
  {"transcript", "duration_seconds", "duration_iso", "release_date",
   "view_count", "like_count", "comment_count", "thumbnail_url"}

\* C6 as stated: a job whose listing yields N ids of which k primary fetches
\* fail ends done with completed = N, N results, and exactly k results with a
\* non-null error, every other field of which is null.
C6_FailedUnitsAllNull ==
  \A j \in Jobs :
    Enumerated(j) =>
      LET job == youtubeJobs[j]
          N == Len(driver[j].ids)
      IN /\ job.status = "done"
         /\ job.completed = N
         /\ Len(job.results) = N
         /\ Cardinality(ErrorAt(job.results)) = Cardinality(driver[j].failed)
         /\ \A i \in ErrorAt(job.results) :
              \A f \in DOMAIN job.results[i] \ {"error"} : job.results[i][f] = Null

\* C6 amended: a job whose listing yields N ids of which k primary fetches
\* fail ends done with completed = N, N results, and exactly k results with a
\* non-null error, those of the failed units; in each of them the nullable
\* fields are null, title and description are empty strings, and video_id
\* and video_url are those of the unit.
C6_FailedUnitsAsData ==
  \A j \in Jobs :
    Enumerated(j) =>
      LET job == youtubeJobs[j]
          ids == driver[j].ids
          N == Len(ids)
      IN /\ job.status = "done"
         /\ job.completed = N
         /\ Len(job.results) = N
         /\ Cardinality(ErrorAt(job.results)) = Cardinality(driver[j].failed)
         /\ ErrorAt(job.results) = {i + 1 : i \in driver[j].failed}
         /\ \A i \in ErrorAt(job.results) :
              /\ \A f \in NullableFields : job.results[i][f] = Null
              /\ job.results[i].title = Str("") /\ job.results[i].description = Str("")
              /\ job.results[i].video_id = Str(ids[i])
              /\ job.results[i].video_url = WatchUrl(ids[i])

C6_Witness ==
  \E j \in Jobs :
    /\ Enumerated(j)
    /\ Len(driver[j].ids) = 2
    /\ driver[j].failed = {0}
    /\ youtubeJobs[j].results[2].title = Str("a title")

\* C7: in a done job, results[i] is the outcome of the i-th listed id: its
\* video_id and video_url are those of ids[i], and it is an error record
\* exactly when the fetch of ids[i] failed.
C7_ResultsInListingOrder ==
  \A j \in Jobs :
    youtubeJobs[j].status = "done" =>
      LET results == youtubeJobs[j].results
          ids == driver[j].ids
      IN /\ Len(results) = Len(ids)
         /\ \A i \in 1..Len(ids) :
              /\ results[i].video_id = Str(ids[i])
              /\ results[i].video_url = WatchUrl(ids[i])
              /\ HasError(results[i]) <=> (i - 1) \in driver[j].failed

C7_Witness ==
  \E j \in Jobs :
    /\ youtubeJobs[j].status = "done"
    /\ driver[j].ids = <<"vb", "va">>
    /\ driver[j].failed = {0}

\* C8: a job is in status error exactly when its listing call threw; then
\* completed = 0, results is empty, error is the thrown message, and no
\* progress event was published for the job.
C8_ErrorOnlyFromListing ==
  \A j \in Jobs :
    /\ youtubeJobs[j].status = "error" <=> driver[j].thrown # Null
    /\ youtubeJobs[j].status = "error" =>
         /\ youtubeJobs[j].completed = 0
         /\ youtubeJobs[j].results = <<>>
         /\ youtubeJobs[j].error = driver[j].thrown.message
         /\ ProgressOf(published[j]) = <<>>

C8_Witness ==
  \E j \in Jobs, s \in Subs :
    /\ youtubeJobs[j].status = "error"
    /\ chan[s].jobId = j
    /\ Kinds(s) = <<"status", "error">>
    /\ chan[s].at = "running"

\* C9 as stated: when the listing call succeeds and yields no id, the job
\* ends in status error.
C9_EmptyListingIsError ==
  \A j \in Jobs :
    (Enumerated(j) /\ driver[j].ids = <<>>) => youtubeJobs[j].status = "error"

\* C9 amended: when the listing call succeeds and yields no id, enumeration
\* returns the empty sequence and the job ends done with total = 0,
\* completed = 0, no result and no error, after a done event and no progress
\* event.
C9_EmptyListingIsDone ==
  \A j \in Jobs :
    (Enumerated(j) /\ driver[j].ids = <<>>) =>
      /\ youtubeJobs[j].status = "done"
      /\ youtubeJobs[j].total = 0
      /\ youtubeJobs[j].completed = 0
      /\ youtubeJobs[j].results = <<>>
      /\ youtubeJobs[j].error = Null
      /\ published[j] = <<StartingEvent, DoneEvent(j, 0)>>

C9_Witness ==
  \E j \in Jobs, s \in Subs :
    /\ Enumerated(j) /\ driver[j].ids = <<>>
    /\ chan[s].jobId = j
    /\ Kinds(s) = <<"status", "done">>
    /\ chan[s].at = "running"

\* C10: the response of fetch-result is the results sequence (200) exactly
\* when the job is done; for a running or failed job it is 400 naming the
\* status, with no results in it; for an id not in the registry it is 404.
C10_ResultOnlyWhenDone ==
  resp.op = "result" =>
    LET j == resp.jobId
    IN /\ resp.code \in {200, 400, 404}
       /\ resp.code = 404 <=> j \notin Jobs
       /\ resp.code = 200 <=> (j \in Jobs /\ youtubeJobs[j].status = "done")
       /\ resp.code = 200 =>
            /\ resp.body = youtubeJobs[j].results
            /\ resp.body = driver[j].results
       /\ resp.code = 400 =>
            /\ youtubeJobs[j].status \in {"running", "error"}
            /\ resp.body = [error |-> <<"Job not done: ", youtubeJobs[j].status>>]

C10_Witness ==
  /\ resp.op = "result"
  /\ resp.code = 400
  /\ youtubeJobs[resp.jobId].status = "running"
  /\ Len(driver[resp.jobId].results) = 1

\* C11: a response attached under an id that is not in the registry holds
\* the one error event 'Unknown jobId', has been ended by the server and is
\* in no subscriber set.
C11_UnknownIdStreamEnds ==
  \A s \in Subs :
    chan[s].at = "unknown" =>
      /\ chan[s].recv = <<ErrorEvent(Str("Unknown jobId"))>>
      /\ chan[s].st \in {"ended", "closed"}
      /\ \A j \in DOMAIN youtubeStreams : s \notin youtubeStreams[j]

\* the event kinds a response holds follow status* progress* (done | error)?,
\* i.e. nothing follows a terminal event and no status follows a progress
InOrder(kinds) ==
  \A a \in 1..Len(kinds), b \in 1..Len(kinds) :
    a < b =>
      /\ kinds[a] \notin Terminal
      /\ kinds[a] = "progress" => kinds[b] # "status"

\* C12: the events written to a response follow status* progress*
\* (done | error): no status after a progress, no event after a terminal
\* event, at most one terminal event.
C12_EventOrder ==
  \A s \in Subs : InOrder(Kinds(s))

\* C13: a create call never draws an id that is a key of the registry, so
\* it never overwrites the record of a job.
C13_CreateNeverOverwrites ==
  [][(resp'.op = "create" /\ resp'.code = 200) => resp'.jobId \notin Jobs]_vars

\* a channelUrl of the request body that is missing, empty or not a string
MissingEmptyOrNonString(u) ==
  \/ u \in {Undefined, Null}
  \/ u.t = "str" /\ u.v = ""
  \/ u.t \in {"num", "nan"}

\* C14: a create call whose channelUrl is missing, empty or not a string
\* answers 400 and leaves the registry, the subscriber sets, the downloads,
\* the responses and the published events as they were; any other create
\* call answers 200.
C14_BadUrlChangesNothing ==
  [][\A jobId \in JobIds, u \in ChannelUrlInputs, m \in MaxVideosInputs :
       Create(jobId, u, m) =>
         IF MissingEmptyOrNonString(u)
           THEN /\ resp'.code = 400
                /\ UNCHANGED <<youtubeJobs, youtubeStreams, driver, chan, published>>
           ELSE resp'.code = 200]_vars

C14_Witness ==
  /\ resp.op = "create" /\ resp.code = 400
  /\ \E j \in Jobs : youtubeJobs[j].status = "done" /\ youtubeJobs[j].results # <<>>
  /\ \E s \in Subs : chan[s].st = "ended"

\* the integer a maxVideos input reads as; Undefined when it reads as none
ParsedInteger(m) ==
  CASE m.t = "num" -> m
    [] m = Chars(<<"2", "5", "0">>) -> Num(250)
    [] m = Chars(<<"7", "x">>) -> Num(7)
    [] m = Chars(<<" ", "4", "2">>) -> Num(42)
    [] m = Chars(<<"-", "5">>) -> Num(0 - 5)
    [] m = Chars(<<"+", "8">>) -> Num(8)
    [] m = Chars(<<"0", "0", "7">>) -> Num(7)
    [] m = Chars(<<"2", ".", "7">>) -> Num(2)
    [] OTHER -> Undefined

EffectiveMax(m) ==
  LET x == ParsedInteger(m)
  IN CASE x = Undefined -> 10
       [] x.v < 1 -> 1
       [] x.v > 100 -> 100
       [] OTHER -> x.v

\* C15: whatever maxVideos a create call carries, the value it works with
\* is in 1..100: the integer the input reads as when that is in range, 1
\* below, 100 above, 10 when the input is absent or reads as no integer; the
\* response's maxVideos and the new job's total and maxVideos are that value.
C15_MaxVideosClamped ==
  [][\A jobId \in JobIds, u \in ChannelUrlInputs, m \in WideMaxVideos :
       (Create(jobId, u, m) /\ resp'.code = 200) =>
         /\ EffectiveMax(m) \in 1..100
         /\ resp'.body.maxVideos = EffectiveMax(m)
         /\ youtubeJobs'[jobId].total = EffectiveMax(m)
         /\ youtubeJobs'[jobId].maxVideos = EffectiveMax(m)
         /\ clampInt(m, 1, 100, 10) = EffectiveMax(m)]_vars

C15_Witness ==
  /\ resp.op = "create" /\ resp.code = 200 /\ resp.body.maxVideos = 100
  /\ youtubeJobs[resp.jobId].total = 100
  /\ youtubeJobs[resp.jobId].status = "running"

Reads == {"status", "result"}

\* C16: a status or result request changes no job record, no subscriber
\* set, no download and no response stream; what the two requests return
\* for a terminal job is read from its record, so a repetition returns the
\* same data as the request before it.
C16_ReadsChangeNothing ==
  [][/\ resp'.op \in Reads =>
          UNCHANGED <<youtubeJobs, youtubeStreams, driver, chan, published>>
     /\ \A j \in Jobs : youtubeJobs[j].status \in Terminal =>
          /\ (resp'.op = "status" /\ resp'.jobId = j) =>
                /\ resp'.code = 200
                /\ resp'.body.status = youtubeJobs[j].status
                /\ resp'.body.completed = youtubeJobs[j].completed
                /\ resp'.body.total = youtubeJobs[j].total
                /\ resp'.body.error = youtubeJobs[j].error
          /\ (resp'.op = "result" /\ resp'.jobId = j /\ youtubeJobs[j].status = "done") =>
                resp'.code = 200 /\ resp'.body = youtubeJobs[j].results
     /\ (resp.op \in Reads /\ resp'.op = resp.op /\ resp'.jobId = resp.jobId) =>
          resp' = resp]_vars

C16_Witness ==
  /\ resp.op = "result" /\ resp.code = 200 /\ Len(resp.body) = 2
  /\ \E s \in Subs : chan[s].st = "ended"
  /\ \E s \in Subs : chan[s].st = "open"

\* the ids a create call has inserted so far: each published 'starting'
EverCreated == {j \in JobIds : published[j] # <<>>}

\* C17: no step removes a job from the registry, and a status request
\* answers not-found exactly when no create call ever inserted its id.
C17_JobsNeverRemoved ==
  [][/\ Jobs \subseteq DOMAIN youtubeJobs'
     /\ resp'.op = "status" =>
          /\ resp'.code \in {200, 404}
          /\ resp'.code = 404 <=> resp'.jobId \notin EverCreated']_vars

C17_Witness ==
  /\ resp.op = "status" /\ resp.code = 200
  /\ resp.body.status = "error"
  /\ resp.jobId \in EverCreated
  /\ ~Has(youtubeStreams, resp.jobId)
  /\ \E s \in Subs : chan[s].st = "ended"

\* the responses whose request closes in this step
Closing == {s \in Subs : chan[s].st = "open" /\ chan'[s].st = "closed"}

IsSuffix(a, b) ==
  Len(a) <= Len(b) /\ a = SubSeq(b, Len(b) - Len(a) + 1, Len(b))

\* C18: a step in which a request closes changes only that response: it
\* leaves its job's subscriber set, and the job records, the downloads, the
\* published events, the events every response holds and the other members
\* of every set stay as they were; a response attached to a running job and
\* not closed holds, after its replay, all events published since, whatever
\* other responses closed meanwhile.
C18_CloseOnlyUnsubscribes ==
  [][/\ Closing # {} =>
          /\ UNCHANGED <<youtubeJobs, driver, published>>
          /\ \A s \in Subs : chan'[s].recv = chan[s].recv
          /\ \A s \in Subs \ Closing : chan'[s] = chan[s]
          /\ DOMAIN youtubeStreams' = DOMAIN youtubeStreams
          /\ \A j \in DOMAIN youtubeStreams :
                youtubeStreams'[j] = youtubeStreams[j] \ Closing
     /\ \A s \in Subs :
          (chan'[s].at = "running" /\ chan'[s].st \in {"open", "ended"}) =>
            /\ IsSuffix(Tail(chan'[s].recv), published'[chan'[s].jobId])
            /\ chan'[s].st = "open" => s \in youtubeStreams'[chan'[s].jobId]]_vars

C18_Witness ==
  \E s, o \in Subs :
    /\ chan[s].st = "closed" /\ chan[s].at = "running"
    /\ chan[o].st = "ended" /\ chan[o].at = "running"
    /\ Len(chan[o].recv) > Len(chan[s].recv) + 1
    /\ youtubeJobs[chan[o].jobId].status = "done"
    /\ Len(youtubeJobs[chan[o].jobId].results) = 2

\* C19: once a job is terminal no subscriber set is registered under its id
\* and every response attached under that id has been ended or has closed,
\* also when it attached after the job terminated.
C19_NoSubscriberOutlivesJob ==
  \A j \in Jobs :
    youtubeJobs[j].status \in Terminal =>
      /\ ~Has(youtubeStreams, j)
      /\ \A s \in Subs : chan[s].jobId = j => chan[s].st \in {"ended", "closed"}

\* C20: a running job always has an external call outstanding whose return
\* or failure lets its download go on, and every job of the registry
\* eventually has status done or error.
C20_EveryJobTerminates ==
  /\ [](\A j \in Jobs : youtubeJobs[j].status = "running" => ENABLED DriverStep(j))
  /\ \A j \in JobIds :
       (j \in Jobs) ~> (j \in Jobs /\ youtubeJobs[j].status \in Terminal)

C20_Witness ==
  \E j \in Jobs :
    /\ youtubeJobs[j].status = "done" /\ youtubeJobs[j].completed = 2
    /\ driver[j].pc = "finished" /\ driver[j].failed # {}

\* C21: the completed count of a job's record never decreases and no longer
\* changes once the job is terminal; a status request reports the count of
\* the record, so successive status snapshots never show a rollback.
C21_CompletedNeverRollsBack ==
  [][/\ \A j \in Jobs :
          /\ youtubeJobs'[j].completed >= youtubeJobs[j].completed
          /\ youtubeJobs[j].status \in Terminal =>
                youtubeJobs'[j].completed = youtubeJobs[j].completed
     /\ (resp'.op = "status" /\ resp'.code = 200) =>
          resp'.body.completed = youtubeJobs'[resp'.jobId].completed]_vars

C21_Witness ==
  /\ resp.op = "status" /\ resp.code = 200
  /\ resp.body.status = "done" /\ resp.body.completed = 2
  /\ driver[resp.jobId].failed # {}

\* the responses that attach in this step
Attaching == {s \in Subs : chan[s].st = "unused" /\ chan'[s].st = "open"}

\* C22: the step that attaches a response to a running job registers it,
\* replays the record as it is in that step and publishes nothing; the
\* progress events of the job carry completed = 1, 2, ... and a response
\* whose replay reported completed = c holds, while it is open or once the
\* server ended it, exactly the published progress events after the c-th,
\* each once and in order; a response that closed holds a run of them
\* starting after the c-th.
C22_AttachReplaysAtomically ==
  [][/\ \A s \in Attaching :
          LET j == chan'[s].jobId
          IN (j \in Jobs /\ youtubeJobs[j].status = "running") =>
               /\ Has(youtubeStreams', j) /\ s \in youtubeStreams'[j]
               /\ chan'[s].recv[1].data.completed = youtubeJobs[j].completed
               /\ chan'[s].recv[1].data.completed = Len(ProgressOf(published[j]))
               /\ UNCHANGED <<youtubeJobs, published, driver>>
     /\ \A s \in Subs :
          chan'[s].at = "running" =>
            LET pub == ProgressOf(published'[chan'[s].jobId])
                got == ProgressOf(chan'[s].recv)
                c == chan'[s].recv[1].data.completed
            IN /\ \A k \in 1..Len(pub) : pub[k].data.completed = k
               /\ c + Len(got) <= Len(pub)
               /\ got = SubSeq(pub, c + 1, c + Len(got))
               /\ chan'[s].st \in {"open", "ended"} => c + Len(got) = Len(pub)]_vars

C22_Witness ==
  \E s \in Subs :
    /\ chan[s].at = "running" /\ chan[s].st = "ended"
    /\ chan[s].recv[1].data.completed = 1
    /\ youtubeJobs[chan[s].jobId].status = "done"
    /\ youtubeJobs[chan[s].jobId].total = 2
    /\ Len(ProgressOf(chan[s].recv)) = 1
    /\ ProgressOf(chan[s].recv)[1].data.completed = 2

\* C23: the progress events published for a job are one per settled unit of
\* its listing, in listing order: the k-th carries completed = k, the id of
\* the k-th listed unit and total = N, the length of the listing; there are
\* as many as results were appended, the record's completed is their number,
\* and N of them once the job is done.
C23_OneProgressPerUnitInOrder ==
  \A j \in Jobs :
    LET pub == ProgressOf(published[j])
        ids == driver[j].ids
    IN /\ Len(pub) = Len(driver[j].results)
       /\ Len(pub) <= Len(ids)
       /\ driver[j].pc \in {"meta", "transcript"} => Len(pub) = driver[j].i
       /\ youtubeJobs[j].completed = Len(pub)
       /\ \A k \in 1..Len(pub) :
            /\ pub[k].data.completed = k
            /\ pub[k].data.total = Len(ids)
            /\ pub[k].data.video_id = ids[k]
            /\ (pub[k].data.error # Null) <=> (k - 1 \in driver[j].failed)
       /\ youtubeJobs[j].status = "done" => Len(pub) = Len(ids)
       /\ \A k \in 1..Len(published[j]) :
            published[j][k].event = "progress" =>
              /\ k > 1
              /\ \A m \in 1..(k - 1) : published[j][m].event \notin Terminal

C23_Witness ==
  \E j \in Jobs :
    /\ youtubeJobs[j].status = "done"
    /\ driver[j].ids = <<"vb", "va">>
    /\ driver[j].failed = {0}
    /\ Len(ProgressOf(published[j])) = 2

Last(q) == q[Len(q)]
SetOf(j) == IF Has(youtubeStreams, j) THEN youtubeStreams[j] ELSE {}

\* C24: in the step that makes a job done or error, every response that is
\* in the job's subscriber set gets the terminal event as its last event,
\* with the data of the updated record, and is ended; the event is the last
\* one published for the job; no subscriber set is registered under the id
\* afterwards; the responses outside the set are left as they were.
C24_TerminalEventThenClose ==
  [][\A j \in Jobs :
       (youtubeJobs[j].status = "running" /\ youtubeJobs'[j].status \in Terminal) =>
         LET ev == Last(published'[j])
         IN /\ ev.event = youtubeJobs'[j].status
            /\ ev.event = "done" =>
                 /\ ev.data.total = youtubeJobs'[j].total
                 /\ ev.data.total = Len(youtubeJobs'[j].results)
            /\ ev.event = "error" => ev.data.error = youtubeJobs'[j].error
            /\ ~Has(youtubeStreams', j)
            /\ \A s \in SetOf(j) :
                 /\ chan'[s].st = "ended"
                 /\ Len(chan'[s].recv) > Len(chan[s].recv)
                 /\ Last(chan'[s].recv) = ev
                 /\ \A k \in 1..(Len(chan'[s].recv) - 1) :
                      chan'[s].recv[k].event \notin Terminal \/ chan[s].at = "unknown"
            /\ \A s \in Subs \ SetOf(j) : chan'[s] = chan[s]]_vars

C24_Witness ==
  \E s, o \in Subs :
    /\ s # o
    /\ chan[s].st = "ended" /\ Last(chan[s].recv).event = "done"
    /\ chan[o].st = "ended" /\ Last(chan[o].recv).event = "done"
    /\ ~Has(youtubeStreams, chan[s].jobId)
    /\ youtubeJobs[chan[s].jobId].status = "done"

\* the events published for j in this step
NewlyPublished(j) == SubSeq(published'[j], Len(published[j]) + 1, Len(published'[j]))

\* C25: when events are published for a job while the channel of one of its
\* subscribers is broken, every writable response of the set still gets
\* them, the broken one gets nothing, the record's completed follows the
\* progress events published, the job ends in error only when its listing
\* threw, and a running job can always take its next step.
C25_BrokenChannelIsSwallowed ==
  /\ [][\A j \in Jobs :
          /\ Len(published'[j]) >= Len(published[j])
          /\ \A s \in SetOf(j) :
               chan'[s].recv = IF Writable(chan[s])
                                 THEN chan[s].recv \o NewlyPublished(j)
                                 ELSE chan[s].recv
          /\ youtubeJobs'[j].completed = Len(ProgressOf(published'[j]))
          /\ youtubeJobs'[j].status = "error" => driver'[j].thrown # Null]_vars
  /\ [](\A j \in Jobs : youtubeJobs[j].status = "running" => ENABLED DriverStep(j))

C25_Witness ==
  \E s, o \in Subs :
    /\ chan[s].st = "broken" /\ chan[s].at = "running" /\ Len(chan[s].recv) = 1
    /\ chan[o].st = "ended" /\ chan[o].at = "running" /\ Len(chan[o].recv) = 4
    /\ chan[o].jobId = chan[s].jobId
    /\ Last(chan[o].recv).event = "done"
    /\ youtubeJobs[chan[o].jobId].status = "done"
    /\ youtubeJobs[chan[o].jobId].completed = 2

\* the job whose create call or download continuation runs in this step
Acting == {j \in TwoJobIds : driver'[j] # driver[j]}
SetAfter(j) == IF Has(youtubeStreams', j) THEN youtubeStreams'[j] ELSE {}

\* C26: with two jobs in flight, a step of one job's create call or download
\* publishes events for that job only, writes them only to responses
\* attached under that job's id, and leaves the other job's record, results,
\* download, published events and subscriber set as they were; every event
\* a response holds that names a job names the id it attached under.
C26_JobsAreIndependent ==
  [][/\ \A a \in Acting : \A b \in TwoJobIds \ {a} :
          /\ driver'[b] = driver[b]
          /\ published'[b] = published[b]
          /\ SetAfter(b) = SetOf(b)
          /\ Has(youtubeJobs, b) =>
               Has(youtubeJobs', b) /\ youtubeJobs'[b] = youtubeJobs[b]
          /\ \A s \in Subs : chan[s].jobId = b => chan'[s] = chan[s]
     /\ \A s \in Subs :
          (chan[s].st # "unused" /\ chan'[s].recv # chan[s].recv) =>
            chan'[s].recv = chan[s].recv \o NewlyPublished(chan[s].jobId)
     /\ \A s \in Subs : \A k \in 1..Len(chan'[s].recv) :
          chan'[s].recv[k].event = "done" =>
            chan'[s].recv[k].data.jobId = chan'[s].jobId]_vars

C26_Witness ==
  \E s, o \in Subs :
    /\ chan[s].jobId = "j1" /\ chan[o].jobId = "j2"
    /\ chan[s].at = "running" /\ chan[o].at = "running"
    /\ youtubeJobs["j1"].status = "running" /\ driver["j1"].pc = "transcript"
    /\ chan[s].st = "open" /\ Len(chan[s].recv) = 1
    /\ youtubeJobs["j2"].status = "done" /\ Len(youtubeJobs["j2"].results) = 1
    /\ chan[o].st = "ended" /\ Kinds(o) = <<"status", "progress", "done">>

\* the units (0-based) of job j whose fetch the download awaits
InFlight(d) == IF d.pc \in {"meta", "transcript"} THEN {d.i} ELSE {}

\* C27: a job awaits the fetch of at most one unit; while the fetch of unit
\* u is awaited, the outcomes of exactly the units before u are in results,
\* in listing order, and the progress callback has run for exactly those;
\* the awaited unit changes only to the next one, in the step that appends
\* the outcome of the current one and publishes its progress event.
C27_OneFetchInFlight ==
  [][\A j \in DOMAIN driver' :
       LET d == driver'[j]
       IN /\ Cardinality(InFlight(d)) <= 1
          /\ \A u \in InFlight(d) :
               /\ u < Len(d.ids)
               /\ Len(d.results) = u
               /\ \A k \in 1..u : d.results[k].video_id = Str(d.ids[k])
               /\ Len(ProgressOf(published'[j])) = u
               /\ youtubeJobs'[j].completed = u
               /\ \A v \in InFlight(driver[j]) :
                    v # u =>
                      /\ u = v + 1
                      /\ Len(driver[j].results) = v
                      /\ Last(published'[j]).event = "progress"
                      /\ Last(published'[j]).data.completed = u]_vars

C27_Witness ==
  \E j \in Jobs :
    /\ driver[j].pc = "transcript" /\ driver[j].i = 1
    /\ Len(driver[j].results) = 1 /\ HasError(driver[j].results[1])
    /\ youtubeJobs[j].completed = 1 /\ youtubeJobs[j].status = "running"

\* C28: when the transcript fetch of a unit throws after its metadata fetch
\* returned, the unit's result is the record made from the metadata with
\* transcript null and no error field, the progress event of the unit
\* carries error null and that record, and the job does not go to error.
C28_TranscriptFailureIsSilent ==
  [][\A j \in Jobs, reply \in TranscriptReplies :
       (reply.threw /\ TranscriptSettles(j, reply)) =>
         LET rec == Last(driver'[j].results)
             ev == NewlyPublished(j)[1]
         IN /\ Len(driver'[j].results) = Len(driver[j].results) + 1
            /\ rec = [driver[j].item EXCEPT !.transcript = Null]
            /\ rec.title = driver[j].item.title
            /\ ~HasError(rec) /\ "error" \notin DOMAIN rec
            /\ ev.event = "progress"
            /\ ev.data.error = Null
            /\ ev.data.item = rec
            /\ youtubeJobs'[j].status \in {"running", "done"}
            /\ youtubeJobs'[j].error = Null
            /\ youtubeJobs'[j].status = "done" => Last(youtubeJobs'[j].results) = rec]_vars

C28_Witness ==
  \E j \in Jobs :
    /\ youtubeJobs[j].status = "done"
    /\ Len(youtubeJobs[j].results) = 2
    /\ driver[j].failed = {}
    /\ \A k \in 1..2 :
         /\ youtubeJobs[j].results[k].transcript = Null
         /\ ~HasError(youtubeJobs[j].results[k])
    /\ youtubeJobs[j].results[1].title = Str("a title")

\* the job ids for which some response holds a done event
DoneSeen ==
  {chan[s].jobId : s \in {r \in Subs : \E k \in 1..Len(chan[r].recv) :
                                         chan[r].recv[k].event = "done"}}

\* C29: whenever a response holds a done event of a job, written live or by
\* replay, the registry holds that job with status done and all its results,
\* as many as the event's total and one per listed unit; a result request
\* for such a job answers 200 with exactly these results.
C29_DoneMeansResultReady ==
  /\ \A s \in Subs : \A k \in 1..Len(chan[s].recv) :
       chan[s].recv[k].event = "done" =>
         LET j == chan[s].recv[k].data.jobId
         IN /\ j = chan[s].jobId
            /\ Has(youtubeJobs, j)
            /\ youtubeJobs[j].status = "done"
            /\ Len(youtubeJobs[j].results) = chan[s].recv[k].data.total
            /\ Len(youtubeJobs[j].results) = Len(driver[j].ids)
            /\ youtubeJobs[j].results = driver[j].results
            /\ ResultResponse(j).code = 200
  /\ (resp.op = "result" /\ resp.jobId \in DoneSeen) =>
       resp.code = 200 /\ resp.body = youtubeJobs[resp.jobId].results

C29_Witness ==
  /\ resp.op = "result" /\ resp.code = 200 /\ resp.jobId \in DoneSeen
  /\ Len(resp.body) = 2
  /\ \E s \in Subs : chan[s].at = "done" /\ chan[s].st = "open"
  /\ \E s \in Subs : chan[s].at = "running" /\ chan[s].st = "ended"

CountOf(d, e) == Len(SelectSeq(d, LAMBDA x : x.e = e))
IsResponse(x, status) == x.e = "response" /\ x.status = status
Responses(d) == SelectSeq(d, LAMBDA x : x.e = "response")

\* C30: a call of fetchWithRetry issues at most maxRetries requests, the
\* first at once and each further one only after a 429 response and the
\* sleep that follows it; every 429 response is followed by a sleep, also on
\* the last attempt; a response that is ok or fails with another status is
\* the last thing the call does, and it returns ok: true, or ok: false, with
\* that status; after maxRetries responses 429 it returns ok: false with 429.
C30_RetryOnlyOn429 ==
  LET d == retry.did
      n == Len(d)
      rs == Responses(d)
  IN /\ CountOf(d, "request") <= retry.maxRetries
     /\ CountOf(d, "sleep") = Len(SelectSeq(rs, LAMBDA x : x.status = 429))
     /\ \A k \in 1..n :
          /\ d[k].e = "request" =>
               k = 1 \/ (k >= 3 /\ d[k - 1].e = "sleep" /\ IsResponse(d[k - 2], 429))
          /\ d[k].e = "response" => k >= 2 /\ d[k - 1].e = "request"
          /\ IsResponse(d[k], 429) => k < n /\ d[k + 1].e = "sleep"
          /\ (d[k].e = "response" /\ d[k].status # 429) =>
               k = n /\ retry.pc = "returned"
     /\ retry.pc = "returned" =>
          IF rs = <<>>
            THEN retry.maxRetries = 0 /\ ~retry.result.ok /\ retry.result.status = 429
            ELSE LET last == rs[Len(rs)].status
                 IN /\ retry.result.status = last
                    /\ retry.result.ok <=> last \in 200..299
                    /\ last = 429 =>
                         /\ Len(rs) = retry.maxRetries
                         /\ CountOf(d, "sleep") = retry.maxRetries
                         /\ d[n].e = "sleep"

C30_Witness ==
  /\ retry.pc = "returned" /\ retry.maxRetries = 3
  /\ CountOf(retry.did, "request") = 3
  /\ CountOf(retry.did, "sleep") = 3
  /\ ~retry.result.ok /\ retry.result.status = 429
====
